---- MODULE Spec2Model ----
(***************************************************************************)
(* Weekly vegetable sales pipeline (bronze / silver / gold) of             *)
(* src/src/app_csv.py (flat files) and src/src/app_sql.py (sqlite).        *)
(*                                                                         *)
(* Quantities are kept exact: a gold row's sales is held in sevenths of a  *)
(* kilo (sales7 = 7 * sales), so sales * (days / 7.0) is sales * days.     *)
(* A month key "YYYYMM" is the integer year * 100 + month.                 *)
(***************************************************************************)
EXTENDS Integers, Sequences, FiniteSets, TLC

(***************************************************************************)
(* JSON values of a posted record.  t is the JSON type of the value:       *)
(* "str", "num", or "absent" when the object has no such key.              *)
(* A date string is held by the two integers int() reads from its          *)
(* split("-") parts; "nodash" is a string with no "-" in it.               *)
(***************************************************************************)
Str(s) == [t |-> "str", s |-> s, n |-> 0]
Num(n) == [t |-> "num", s |-> "", n |-> n]
Absent == [t |-> "absent", s |-> "", n |-> 0]

DateLabel(y, w) == [t |-> "str", year |-> y, week |-> w]
DateNoDash == [t |-> "nodash", year |-> 0, week |-> 0]
DateNum == [t |-> "num", year |-> 0, week |-> 0]
DateAbsent == [t |-> "absent", year |-> 0, week |-> 0]

Obj(d, v, k) == [obj |-> TRUE, date |-> d, vegetable |-> v, kilo_sold |-> k]
NotAnObject == [obj |-> FALSE, date |-> DateAbsent, vegetable |-> Absent, kilo_sold |-> Absent]

(***************************************************************************)
(* standardize_vegetable_name                                              *)
(***************************************************************************)
\* name.lower().strip(), on the names of the model
LowerStrip(name) ==
    CASE name = " Tomate " -> "tomate"
      [] name = "Carrot" -> "carrot"
      [] name = "TOMATO" -> "tomato"
      [] name = "Pomme De Terre" -> "pomme de terre"
      [] name = "Kiwi" -> "kiwi"
      [] name = " kiwi " -> "kiwi"
      [] name = "Brussels Sprout " -> "brussels sprout"
      [] OTHER -> name

\* the keys of the translations dict
TranslationKeys ==
    {"tomate", "tomatoes", "tomaot", "tomatto", "poire", "peer", "pera",
     "carotte", "zanahoria", "pomme de terre", "patata", "oignon", "cebolla",
     "poivron", "pimiento", "brusel sprout", "brussel sprout",
     "brussell sprout", "brusselsprout"}

\* translations[k]
Translations(k) ==
    CASE k \in {"tomate", "tomatoes", "tomaot", "tomatto"} -> "tomato"
      [] k \in {"poire", "peer", "pera"} -> "pear"
      [] k \in {"carotte", "zanahoria"} -> "carrot"
      [] k \in {"pomme de terre", "patata"} -> "potato"
      [] k \in {"oignon", "cebolla"} -> "onion"
      [] k \in {"poivron", "pimiento"} -> "pepper"
      [] k \in {"brusel sprout", "brussel sprout", "brussell sprout",
                "brusselsprout"} -> "brussels sprout"

\* the name is looked up as posted, and lowered and stripped only after
LookupAsPosted(name) ==
    IF name \in TranslationKeys THEN Translations(name) ELSE LowerStrip(name)

\* translations.get(name) with no default: nothing for a name not in the table
GetWithoutDefault(name) ==
    IF LowerStrip(name) \in TranslationKeys THEN Translations(LowerStrip(name)) ELSE ""

\* translations.get(name, name) after name = name.lower().strip()
standardize_vegetable_name(name) ==
    LET low == LowerStrip(name)
    IN  IF low \in TranslationKeys THEN Translations(low) ELSE low

(***************************************************************************)
(* The calendar of datetime: proleptic Gregorian, Monday = 0.              *)
(***************************************************************************)
IsLeap(y) == (y % 4 = 0 /\ y % 100 # 0) \/ y % 400 = 0

DaysInYear(y) == IF IsLeap(y) THEN 366 ELSE 365

DaysInMonth(y, m) ==
    CASE m = 2 -> IF IsLeap(y) THEN 29 ELSE 28
      [] m \in {4, 6, 9, 11} -> 30
      [] OTHER -> 31

\* date(y, 1, 1).weekday()
Jan1Weekday(y) ==
    LET p == y - 1
    IN  (365 * p + (p \div 4) - (p \div 100) + (p \div 400)) % 7

\* the values the directive %W matches: 0..53
MaxWeekW == 53

WeekParses(week) == week >= 0 /\ week <= MaxWeekW

\* week N placed 7 * N days after 1 January
JanFirstPlusWeeks(year, week) == 1 + 7 * week

\* datetime.strptime(f"{year}-{week}-1", "%Y-%W-%w"): the day of the year
\* (1 = 1 January; 0 or less lies in the year before) of that week's Monday
StartJulian(year, week) ==
    LET first_weekday == Jan1Weekday(year)
        week_0_length == (7 - first_weekday) % 7
    IN  IF week = 0
        THEN 1 - first_weekday
        ELSE 1 + week_0_length + 7 * (week - 1)

RECURSIVE MonthOfDay(_, _, _)
\* the month of day number j (1-based) of year y, searched from month m
MonthOfDay(y, m, j) ==
    IF j <= DaysInMonth(y, m) THEN m ELSE MonthOfDay(y, m + 1, j - DaysInMonth(y, m))

\* strftime("%Y%m") of the day with number j of year y; j may leave the year
\* by less than a year on either side
MonthKey(y, j) ==
    IF j <= 0 THEN (y - 1) * 100 + MonthOfDay(y - 1, 1, j + DaysInYear(y - 1))
    ELSE IF j > DaysInYear(y) THEN (y + 1) * 100 + MonthOfDay(y + 1, 1, j - DaysInYear(y))
    ELSE y * 100 + MonthOfDay(y, 1, j)

\* month_days of one week: month key -> number of the week's 7 days in it
MonthDays(year, week) ==
    LET start == StartJulian(year, week)
        keys == {MonthKey(year, start + i) : i \in 0..6}
    IN  [k \in keys |-> Cardinality({i \in 0..6 : MonthKey(year, start + i) = k})]

(***************************************************************************)
(* The dates of the model.  Week 1 of 2020 lies in January, week 52 spans  *)
(* December 2020 and January 2021, and strptime rejects week 60.  The      *)
(* years begin on every day of the week and two of them are leap years.    *)
(***************************************************************************)
Years == 2018..2026
Weeks == 0..60

\* month_days for every year_week key of the model that strptime accepts,
\* computed once
WeekTable ==
    [yw \in {k \in {y * 100 + w : y \in Years, w \in Weeks} : WeekParses(k % 100)} |->
        MonthDays(yw \div 100, yw % 100)]

(***************************************************************************)
(* Table rows.  A bronze or silver row is                                  *)
(* [year_week, vegetable, sales] with vegetable and sales the JSON values  *)
(* that were posted; a gold row is [year_month, vegetable, sales7,         *)
(* is_outlier].                                                            *)
(***************************************************************************)
Row(yw, v, k) == [year_week |-> yw, vegetable |-> v, sales |-> k]

\* the columns of subset=["year_week", "vegetable"] and of UNIQUE(year_week, vegetable)
Key(r) == <<r.year_week, r.vegetable>>

GoldKey(g) == <<g.year_month, g.vegetable>>

(***************************************************************************)
(* compute_monthly_sales                                                   *)
(***************************************************************************)
\* the row makes the loop body raise: strptime rejects the week (ValueError)
\* or sales * (days / 7.0) is not defined for the value (TypeError)
RowRaises(r) == ~WeekParses(r.year_week % 100) \/ r.sales.t # "num"

ComputeRaises(df) == \E i \in 1..Len(df) : RowRaises(df[i])

\* month_days of a row, looked up in WeekTable
RowMonthDays(r) == WeekTable[r.year_week]

\* every month of the week is given the whole quantity
WholeContribution(r, m) ==
    IF m \in DOMAIN RowMonthDays(r) THEN r.sales.n * 7 ELSE 0

\* what one row appends to result for month key m, in sevenths of a kilo
Contribution(r, m) ==
    LET md == RowMonthDays(r)
    IN  IF m \in DOMAIN md THEN r.sales.n * md[m] ELSE 0

RECURSIVE GroupSum(_, _, _, _)
\* groupby(["year_month", "vegetable"])["sales"].sum() for one group
GroupSum(df, m, veg, i) ==
    IF i > Len(df) THEN 0
    ELSE (IF df[i].vegetable.s = veg THEN Contribution(df[i], m) ELSE 0)
         + GroupSum(df, m, veg, i + 1)

\* the aggregated frame, before tagging (df.empty gives the empty frame)
compute_monthly_sales(df) ==
    LET groups == UNION {
            {<<m, df[i].vegetable.s>> :
                m \in DOMAIN RowMonthDays(df[i])} :
            i \in 1..Len(df)}
    IN  {[year_month |-> g[1], vegetable |-> g[2],
          sales7 |-> GroupSum(df, g[1], g[2], 1)] : g \in groups}

(***************************************************************************)
(* tag_outliers: sales > mean + 5 * std with the sample standard           *)
(* deviation (ddof = 1) of the vegetable's group; std is NaN for a group   *)
(* of one, which leaves the flag False.                                    *)
(***************************************************************************)
RECURSIVE SumSales(_)
\* the sum of sales over a group: n * mean
SumSales(group) ==
    IF group = {} THEN 0
    ELSE LET g == CHOOSE h \in group : TRUE
         IN  g.sales7 + SumSales(group \ {g})

RECURSIVE SumDev2(_, _, _)
\* the sum over the group of (n * sales - S)^2: n^2 * (n - 1) * std^2
SumDev2(group, n, S) ==
    IF group = {} THEN 0
    ELSE LET g == CHOOSE h \in group : TRUE
         IN  (n * g.sales7 - S) * (n * g.sales7 - S) + SumDev2(group \ {g}, n, S)

\* the threshold taken at mean + 3 * std
ExceedsThreeStd(x, group) ==
    LET n == Cardinality(group)
        S == SumSales(group)
    IN  /\ n >= 2
        /\ n * x - S > 0
        /\ (n * x - S) * (n * x - S) * (n - 1) > 9 * SumDev2(group, n, S)

\* x > mean + 5 * std.  With n the group's size and S its sum this is
\* n*x - S > 5*n*std, and squared (n*x - S)^2 * (n-1) > 25 * SumDev2
ExceedsThreshold(x, group) ==
    LET n == Cardinality(group)
        S == SumSales(group)
    IN  /\ n >= 2
        /\ n * x - S > 0
        /\ (n * x - S) * (n * x - S) * (n - 1) > 25 * SumDev2(group, n, S)

\* mean and std taken over the whole frame, not per vegetable
TagAcrossVegetables(monthly) ==
    {[year_month |-> g.year_month, vegetable |-> g.vegetable, sales7 |-> g.sales7,
      is_outlier |-> ExceedsThreshold(g.sales7, monthly)] : g \in monthly}

tag_outliers(monthly) ==
    {[year_month |-> g.year_month, vegetable |-> g.vegetable, sales7 |-> g.sales7,
      is_outlier |-> ExceedsThreshold(g.sales7,
                        {h \in monthly : h.vegetable = g.vegetable})] : g \in monthly}

\* Step 3 of post_sales: the gold frame of a silver frame
GoldOf(df) == tag_outliers(compute_monthly_sales(df))

(***************************************************************************)
(* The store.  A table is [st, rows]: st is "absent" (the CSV file does    *)
(* not exist), "empty" (the file exists with size 0: opened for writing,   *)
(* nothing written yet) or "data" (a header and rows; always so for a      *)
(* sqlite table).  bronze and silver rows are sequences in storage order,  *)
(* gold rows a set.  lock is the process holding sqlite's write lock, or 0.*)
(***************************************************************************)
Table(st, rows) == [st |-> st, rows |-> rows]

Store(b, s, g, k) == [bronze |-> b, silver |-> s, gold |-> g, lock |-> k]

\* create_app: app_csv makes the directory only, app_sql runs create_tables
NewStore(be) ==
    IF be = "csv"
    THEN Store(Table("absent", <<>>), Table("absent", <<>>), Table("absent", {}), 0)
    ELSE Store(Table("data", <<>>), Table("data", <<>>), Table("data", {}), 0)

\* init_database: three header-only files, or the three tables dropped and recreated
EmptyStore == Store(Table("data", <<>>), Table("data", <<>>), Table("data", {}), 0)

RECURSIVE DropDuplicatesFrom(_, _, _)
DropDuplicatesFrom(rows, i, acc) ==
    IF i > Len(rows) THEN acc
    ELSE DropDuplicatesFrom(rows, i + 1,
            IF \E j \in 1..Len(acc) : Key(acc[j]) = Key(rows[i])
            THEN acc ELSE Append(acc, rows[i]))

\* a concat that is written back as it is, every row kept
KeepAllRows(rows) == rows

\* DataFrame.drop_duplicates(subset=["year_week", "vegetable"]): keep="first"
drop_duplicates(rows) == DropDuplicatesFrom(rows, 1, <<>>)

\* the frame post_sales writes to a CSV table: the file's rows and the new
\* ones without duplicates when the file exists with size > 0, and else the
\* new rows as they are
ConcatFrame(file, new) ==
    IF file.st = "data" THEN drop_duplicates(file.rows \o new) ELSE new

\* INSERT OR IGNORE of one row under UNIQUE(year_week, vegetable)
InsertOrIgnore(rows, r) ==
    IF \E j \in 1..Len(rows) : Key(rows[j]) = Key(r) THEN rows ELSE Append(rows, r)

RECURSIVE InsertAll(_, _, _)
\* the loop of INSERT OR IGNORE over the batch
InsertAll(rows, new, i) ==
    IF i > Len(new) THEN rows ELSE InsertAll(InsertOrIgnore(rows, new[i]), new, i + 1)

\* INSERT OR REPLACE of the monthly frame under UNIQUE(year_month, vegetable)
InsertOrReplaceGold(gold, monthly) ==
    {g \in gold : \A h \in monthly : GoldKey(h) # GoldKey(g)} \cup monthly

(***************************************************************************)
(* post_sales, as the steps one request takes.  l is the request's own     *)
(* state: pc, the posted data, transformed_data / silver_data (td), the    *)
(* frame in memory (df), the monthly frame (gdf) and the response status.  *)
(***************************************************************************)
Local(pc, data, td, df, gdf, status) ==
    [pc |-> pc, data |-> data, td |-> td, df |-> df, gdf |-> gdf, status |-> status]

Idle == Local("idle", [isList |-> FALSE, recs |-> <<>>], <<>>, <<>>, {}, 0)

StartOf(data) == Local("start", data, <<>>, <<>>, {}, 0)

Done(l, status) == [l EXCEPT !.pc = "done", !.status = status]

\* isinstance(record, dict) and all(col in record for col in required_columns)
RecordComplete(rec) ==
    /\ rec.obj
    /\ rec.date.t # "absent"
    /\ rec.vegetable.t # "absent"
    /\ rec.kilo_sold.t # "absent"

\* checks that stop at the first record of the batch
ValidatesFirstRecord(data) ==
    /\ data.isList
    /\ (data.recs # <<>> => RecordComplete(data.recs[1]))

\* the checks that answer 400
Validates(data) ==
    /\ data.isList
    /\ \A i \in 1..Len(data.recs) : RecordComplete(data.recs[i])

\* record["date"].split("-"), date_parts[1], int(): raise unless the date
\* is a string with two integer parts
TransformRaises(data) == \E i \in 1..Len(data.recs) : data.recs[i].date.t # "str"

\* the name is normalized before the bronze write
NormalizedTransform(data) ==
    [i \in 1..Len(data.recs) |->
        Row(data.recs[i].date.year * 100 + data.recs[i].date.week,
            Str(standardize_vegetable_name(data.recs[i].vegetable.s)),
            data.recs[i].kilo_sold)]

\* transformed_data
Transform(data) ==
    [i \in 1..Len(data.recs) |->
        Row(data.recs[i].date.year * 100 + data.recs[i].date.week,
            data.recs[i].vegetable, data.recs[i].kilo_sold)]

\* standardize_vegetable_name(record["vegetable"]) raises AttributeError
\* (.lower()) unless the value is a string
SilverRaises(td) == \E i \in 1..Len(td) : td[i].vegetable.t # "str"

\* silver rows that keep the names as posted
UnnormalizedData(td) == td

\* silver_data
SilverData(td) ==
    [i \in 1..Len(td) |->
        Row(td[i].year_week, Str(standardize_vegetable_name(td[i].vegetable.s)),
            td[i].sales)]

\* the sqlite transaction of post_sales; an exception leaves the with block
\* and rolls it back
SqlTransaction(s, l) ==
    LET b1 == InsertAll(s.bronze.rows, l.td, 1)
        s1 == InsertAll(s.silver.rows, SilverData(l.td), 1)
        g1 == IF s1 = <<>> THEN s.gold.rows
              ELSE InsertOrReplaceGold(s.gold.rows, GoldOf(s1))
    IN  IF SilverRaises(l.td) \/ ComputeRaises(s1)
        THEN [s |-> [s EXCEPT !.lock = 0], l |-> Done(l, 500)]
        ELSE [s |-> Store(Table("data", b1), Table("data", s1), Table("data", g1), 0),
              l |-> Done(l, 200)]

\* whether request p can take its next step: a sqlite writer waits for the lock
CanStep(p, s, l) ==
    /\ l.pc \notin {"idle", "done"}
    /\ l.pc = "sql_begin" => s.lock = 0

\* one step of post_sales by request p
Step(be, p, s, l) ==
    CASE l.pc = "start" ->
            [s |-> s,
             l |-> IF ~Validates(l.data) THEN Done(l, 400)
                   ELSE IF TransformRaises(l.data) THEN Done(l, 500)
                   ELSE [l EXCEPT !.pc = IF be = "csv" THEN "bronze_read" ELSE "sql_begin",
                                  !.td = Transform(l.data)]]
      [] l.pc = "bronze_read" ->
            [s |-> s,
             l |-> [l EXCEPT !.pc = "bronze_open", !.df = ConcatFrame(s.bronze, l.td)]]
      [] l.pc = "bronze_open" ->
            [s |-> [s EXCEPT !.bronze = Table("empty", <<>>)],
             l |-> [l EXCEPT !.pc = "bronze_write"]]
      [] l.pc = "bronze_write" ->
            [s |-> [s EXCEPT !.bronze = Table("data", l.df)],
             l |-> IF SilverRaises(l.td) THEN Done(l, 500)
                   ELSE [l EXCEPT !.pc = "silver_read", !.td = SilverData(l.td)]]
      [] l.pc = "silver_read" ->
            [s |-> s,
             l |-> [l EXCEPT !.pc = "silver_open", !.df = ConcatFrame(s.silver, l.td)]]
      [] l.pc = "silver_open" ->
            [s |-> [s EXCEPT !.silver = Table("empty", <<>>)],
             l |-> [l EXCEPT !.pc = "silver_write"]]
      [] l.pc = "silver_write" ->
            [s |-> [s EXCEPT !.silver = Table("data", l.df)],
             l |-> IF ComputeRaises(l.df) THEN Done(l, 500)
                   ELSE [l EXCEPT !.pc = "gold_open", !.gdf = GoldOf(l.df)]]
      [] l.pc = "gold_open" ->
            [s |-> [s EXCEPT !.gold = Table("empty", {})],
             l |-> [l EXCEPT !.pc = "gold_write"]]
      [] l.pc = "gold_write" ->
            [s |-> [s EXCEPT !.gold = Table("data", l.gdf)],
             l |-> Done(l, 200)]
      [] l.pc = "sql_begin" ->
            [s |-> [s EXCEPT !.lock = p],
             l |-> [l EXCEPT !.pc = "sql_commit"]]
      [] l.pc = "sql_commit" -> SqlTransaction(s, l)

RECURSIVE Run(_, _, _)
\* a request run to its response with no other request in between
Run(be, s, l) ==
    IF l.pc = "done" THEN [s |-> s, l |-> l]
    ELSE LET r == Step(be, 1, s, l) IN Run(be, r.s, r.l)

\* post_sales as one call: the store it leaves and the status it answers
post_sales(be, s, data) == Run(be, s, StartOf(data))

(***************************************************************************)
(* The reads.                                                              *)
(***************************************************************************)
\* get_raw_sales: [] when the CSV file is missing or has size 0
get_raw_sales(s) ==
    IF s.bronze.st # "data" THEN <<>>
    ELSE [i \in 1..Len(s.bronze.rows) |->
            [year |-> s.bronze.rows[i].year_week \div 100,
             week |-> s.bronze.rows[i].year_week % 100,
             vegetable |-> s.bronze.rows[i].vegetable,
             kilo_sold |-> s.bronze.rows[i].sales]]

\* the gold rows get_monthly_sales reads: gold_df[~gold_df["is_outlier"]],
\* or the query with WHERE is_outlier = 0, when remove_outliers is set
GoldRead(s, remove_outliers) ==
    {h \in s.gold.rows : ~(remove_outliers /\ h.is_outlier)}

\* year_month[:4] raises TypeError in the loop over the rows read:
\* read_csv gives the column "202001" back as the integer 202001, which
\* cannot be sliced; sqlite's TEXT column gives the string back
MonthlyRaises(be, rows) == be = "csv" /\ rows # {}

\* get_monthly_sales: the status answered and the rows of the body;
\* [] when the CSV file is missing or has size 0
get_monthly_sales(be, s, remove_outliers) ==
    IF s.gold.st # "data" THEN [status |-> 200, rows |-> {}]
    ELSE IF MonthlyRaises(be, GoldRead(s, remove_outliers))
    THEN [status |-> 500, rows |-> {}]
    ELSE [status |-> 200,
          rows |-> {[year |-> g.year_month \div 100, month |-> g.year_month % 100,
                     vegetable |-> g.vegetable, kilo_sold7 |-> g.sales7,
                     is_outlier |-> g.is_outlier] :
                        g \in GoldRead(s, remove_outliers)}]

(***************************************************************************)
(* Bounds and the requests of the model.                                   *)
(***************************************************************************)
\* the longest posted batch
MaxBatch == 2
\* post_sales is not taken when it would leave more bronze rows than this
MaxRows == 3

Backends == {"csv", "sql"}

\* week 1 is posted under two synonyms and with two quantities, the week
\* that spans two months and the week strptime rejects with one each
TypedRecords ==
    {Obj(DateLabel(2020, 1), Str(v), Num(k)) : v \in {"tomate", "tomato"}, k \in {100, 150}}
    \cup {Obj(DateLabel(2020, 52), Str("carotte"), Num(150)),
          Obj(DateLabel(2020, 60), Str("tomato"), Num(100))}

\* a typed record whose week the allocator accepts
ValidRecord(rec) ==
    /\ RecordComplete(rec)
    /\ rec.date.t = "str" /\ rec.vegetable.t = "str" /\ rec.kilo_sold.t = "num"
    /\ WeekParses(rec.date.week)

ValidRecords == {rec \in TypedRecords : ValidRecord(rec)}

\* records that are not an object or lack a required key
IncompleteRecords ==
    {NotAnObject,
     Obj(DateLabel(2020, 1), Absent, Absent),
     Obj(DateAbsent, Str("tomato"), Num(100))}

\* complete records with a value of the wrong type
MistypedRecords ==
    {Obj(DateNum, Str("tomato"), Num(100)),
     Obj(DateNoDash, Str("tomato"), Num(100)),
     Obj(DateLabel(2020, 1), Num(5), Num(100)),
     Obj(DateLabel(2020, 1), Str("tomato"), Str("abc"))}

\* the valid records posted in one batch with a record that is not
Companions ==
    {Obj(DateLabel(2020, 1), Str("tomato"), Num(100)),
     Obj(DateLabel(2020, 52), Str("carotte"), Num(150))}

Records == TypedRecords \cup IncompleteRecords \cup MistypedRecords

List(recs) == [isList |-> TRUE, recs |-> recs]

NotAList == [isList |-> FALSE, recs |-> <<>>]

SeqsUpTo(R, n) == UNION {[1..k -> R] : k \in 0..n}

\* the batches of typed records
TypedBatches == SeqsUpTo(TypedRecords, MaxBatch) \ {<<>>}

\* one record that is not valid, with valid records before and after it
MixedBatches ==
    {pre \o <<bad>> \o post :
        bad \in IncompleteRecords \cup MistypedRecords,
        pre \in SeqsUpTo(Companions, MaxBatch - 1),
        post \in SeqsUpTo(Companions, MaxBatch - 1)}

\* the bodies post_sales is called with
Datas ==
    {List(recs) : recs \in {b \in TypedBatches \cup MixedBatches : Len(b) <= MaxBatch}}
    \cup {NotAList}

(***************************************************************************)
(* State.                                                                  *)
(***************************************************************************)
VARIABLES
    backend,  \* which application serves the store: "csv" or "sql"
    bronze,   \* bronze_sales
    silver,   \* silver_sales
    gold,     \* gold_sales
    lock,     \* the request holding sqlite's write lock, 0 when free
    procs,    \* the post_sales requests in progress
    resp,     \* the response the last step sent, op "none" when it sent none
    allOk,    \* every post_sales since the store was created or reset answered 200
    reset,    \* init_database was called and no post_sales has answered 200 since
    base,     \* the store when the requests now in progress began
    call      \* a function called on its own: its name, argument and result

vars == <<backend, bronze, silver, gold, lock, procs, resp, allOk, reset, base, call>>

Procs == {1, 2}

Current == Store(bronze, silver, gold, lock)

Response(op, status, raw, monthly, ro) ==
    [op |-> op, status |-> status, raw |-> raw, monthly |-> monthly,
     remove_outliers |-> ro]

NoResponse == Response("none", 0, <<>>, {}, FALSE)

Call(fn, arg, out, done) == [fn |-> fn, arg |-> arg, out |-> out, done |-> done]

NoCall == Call("none", <<>>, <<>>, FALSE)

SetStore(s) ==
    /\ bronze' = s.bronze
    /\ silver' = s.silver
    /\ gold' = s.gold
    /\ lock' = s.lock

Init ==
    /\ backend \in Backends
    /\ bronze = NewStore(backend).bronze
    /\ silver = NewStore(backend).silver
    /\ gold = NewStore(backend).gold
    /\ lock = 0
    /\ procs = [p \in Procs |-> Idle]
    /\ resp = NoResponse
    /\ allOk = TRUE
    /\ reset = FALSE
    /\ base = NewStore(backend)
    /\ call = NoCall

(***************************************************************************)
(* The handlers, one request at a time.                                    *)
(***************************************************************************)
InitDatabase ==
    /\ SetStore(EmptyStore)
    /\ resp' = Response("init_database", 200, <<>>, {}, FALSE)
    /\ allOk' = TRUE
    /\ reset' = TRUE
    /\ UNCHANGED <<backend, procs, base, call>>

PostSales(data) ==
    LET r == post_sales(backend, Current, data)
    IN  /\ Len(r.s.bronze.rows) <= MaxRows
        /\ SetStore(r.s)
        /\ resp' = Response("post_sales", r.l.status, <<>>, {}, FALSE)
        /\ allOk' = (allOk /\ r.l.status = 200)
        /\ reset' = (reset /\ r.l.status # 200)
        /\ UNCHANGED <<backend, procs, base, call>>

GetRawSales ==
    /\ resp' = Response("get_raw_sales", 200, get_raw_sales(Current), {}, FALSE)
    /\ UNCHANGED <<backend, bronze, silver, gold, lock, procs, allOk, reset, base, call>>

GetMonthlySales(remove_outliers) ==
    /\ LET r == get_monthly_sales(backend, Current, remove_outliers)
       IN  resp' = Response("get_monthly_sales", r.status, <<>>, r.rows, remove_outliers)
    /\ UNCHANGED <<backend, bronze, silver, gold, lock, procs, allOk, reset, base, call>>

Next ==
    \/ InitDatabase
    \/ \E data \in Datas : PostSales(data)
    \/ GetRawSales
    \/ \E ro \in BOOLEAN : GetMonthlySales(ro)

Spec == Init /\ [][Next]_vars

(***************************************************************************)
(* Properties of the handlers run one at a time (Spec).                    *)
(***************************************************************************)
\* the number of rows stored under key k
RowsWithKey(rows, k) == Cardinality({i \in 1..Len(rows) : Key(rows[i]) = k})

NoDuplicateKeys(rows) ==
    \A i, j \in 1..Len(rows) : Key(rows[i]) = Key(rows[j]) => i = j

IsPrefix(a, b) == Len(a) <= Len(b) /\ \A i \in 1..Len(a) : b[i] = a[i]

\* the silver row of a bronze row: same year_week and sales, normalized name
Normalized(r) == Row(r.year_week, Str(standardize_vegetable_name(r.vegetable.s)), r.sales)

\* C1: from every reachable store and for every valid record r, posting [r]
\* twice leaves exactly one bronze row under r's key and exactly one silver
\* row under its normalized key, and the second call leaves bronze, silver
\* and gold as the first left them.
C1_IdempotentIngest ==
    \A rec \in ValidRecords :
        LET data == List(<<rec>>)
            row == Transform(data)[1]
            s1 == post_sales(backend, Current, data).s
            s2 == post_sales(backend, s1, data).s
        IN  /\ s2 = s1
            /\ RowsWithKey(s2.bronze.rows, Key(row)) = 1
            /\ RowsWithKey(s2.silver.rows, Key(Normalized(row))) = 1

\* a successful post_sales has just stored a valid record next to another
\* row, and posting that record again changes nothing
C1_Witness ==
    /\ resp.op = "post_sales" /\ resp.status = 200
    /\ Len(bronze.rows) >= 2
    /\ \E rec \in ValidRecords :
        /\ RowsWithKey(bronze.rows, Key(Transform(List(<<rec>>))[1])) = 1
        /\ post_sales(backend, Current, List(<<rec>>)).s = Current

\* some record of the batch is not an object or lacks a required key
HasIncomplete(data) ==
    data.isList /\ \E i \in 1..Len(data.recs) : ~RecordComplete(data.recs[i])

\* C2: from every reachable store, a batch with a record that is not an
\* object or lacks date, vegetable or kilo_sold is answered 400 and leaves
\* bronze, silver and gold unchanged, whatever valid records surround it.
C2_AtomicBatch ==
    \A data \in Datas :
        HasIncomplete(data) =>
            LET r == post_sales(backend, Current, data)
            IN  r.l.status = 400 /\ r.s = Current

\* a batch was answered 400 on a store that holds rows in all three tables,
\* and the batches of the model put valid records before and after an
\* incomplete one
C2_Witness ==
    /\ resp.op = "post_sales" /\ resp.status = 400
    /\ bronze.rows # <<>> /\ silver.rows # <<>> /\ gold.rows # {}
    /\ \E d1, d2 \in Datas :
        /\ HasIncomplete(d1) /\ Len(d1.recs) = MaxBatch /\ ValidRecord(d1.recs[1])
        /\ HasIncomplete(d2) /\ Len(d2.recs) = MaxBatch /\ ValidRecord(d2.recs[MaxBatch])

\* C3: in every reachable state bronze and silver hold at most one row per
\* (year_week, vegetable).
C3_KeyUniqueness == NoDuplicateKeys(bronze.rows) /\ NoDuplicateKeys(silver.rows)

RowAllocates(r) == ~RowRaises(r)

\* C4: between requests, gold is exactly the tagged monthly aggregate of
\* the silver rows (of those the allocator accepts): nothing missing, extra
\* or stale.
C4_GoldIsFunctionOfSilver == gold.rows = GoldOf(SelectSeq(silver.rows, RowAllocates))

\* C5 as stated: after successful post_sales calls only, silver has as many
\* rows as bronze and the normalized form of every bronze row.
C5_SilverOneToOne ==
    allOk =>
        /\ Len(silver.rows) = Len(bronze.rows)
        /\ \A i \in 1..Len(bronze.rows) :
            \E j \in 1..Len(silver.rows) : silver.rows[j] = Normalized(bronze.rows[i])

\* C5 (amended): after successful post_sales calls only, every silver row
\* is the normalized form of a bronze row, every bronze row has a silver
\* row under its year_week and normalized name, and silver has no more rows
\* than bronze.
C5_SilverCoversBronze ==
    allOk =>
        /\ \A j \in 1..Len(silver.rows) :
            \E i \in 1..Len(bronze.rows) : silver.rows[j] = Normalized(bronze.rows[i])
        /\ \A i \in 1..Len(bronze.rows) :
            \E j \in 1..Len(silver.rows) :
                Key(silver.rows[j]) = Key(Normalized(bronze.rows[i]))
        /\ Len(silver.rows) <= Len(bronze.rows)

\* two synonyms of one week were posted successfully: bronze holds both,
\* silver one row, and a bronze quantity is in no silver row
C5_Witness ==
    /\ allOk /\ resp.op = "post_sales" /\ resp.status = 200
    /\ Len(silver.rows) < Len(bronze.rows)
    /\ \E i \in 1..Len(bronze.rows) :
        \A j \in 1..Len(silver.rows) : silver.rows[j] # Normalized(bronze.rows[i])

\* C6: a post_sales call leaves every row already in bronze where it is:
\* bronze before the call is a prefix of bronze after it.
C6_BronzeAppendOnly == [][resp'.op = "post_sales" => IsPrefix(bronze.rows, bronze'.rows)]_vars

\* some record of a complete batch has a value of the wrong type
HasMistyped(data) ==
    /\ Validates(data)
    /\ \E i \in 1..Len(data.recs) :
        \/ data.recs[i].date.t # "str"
        \/ data.recs[i].vegetable.t # "str"
        \/ data.recs[i].kilo_sold.t # "num"

\* C7: a batch with a wrongly typed value is answered with the validation
\* error and writes nothing.
C7_TypeValidation ==
    \A data \in Datas :
        HasMistyped(data) =>
            LET r == post_sales(backend, Current, data)
            IN  r.l.status = 400 /\ r.s = Current

\* C8: after init_database, until a post_sales call succeeds, the three
\* tables are empty and the raw and monthly reads return empty arrays.
C8_ResetEmptyUntilIngest ==
    reset =>
        /\ bronze.rows = <<>> /\ silver.rows = <<>> /\ gold.rows = {}
        /\ get_raw_sales(Current) = <<>>
        /\ \A ro \in BOOLEAN :
            get_monthly_sales(backend, Current, ro) = [status |-> 200, rows |-> {}]

(***************************************************************************)
(* Requests that overlap (SpecConc): each post_sales request takes its     *)
(* steps one at a time, and the steps of two requests and the reads        *)
(* interleave.  Neither application takes a lock of its own; sqlite makes  *)
(* a second writer wait until the first has committed.                     *)
(***************************************************************************)
\* the batches posted by overlapping requests
ConcDatas ==
    {List(<<Obj(DateLabel(2020, 1), Str("tomate"), Num(100))>>),
     List(<<Obj(DateLabel(2020, 52), Str("carotte"), Num(150))>>)}

\* a request is taken while bronze holds fewer rows than this
MaxConcRows == 2

AllIdle == \A p \in Procs : procs[p].pc = "idle"

\* a request arrives
Receive(p, data) ==
    /\ procs[p].pc = "idle"
    /\ Len(bronze.rows) < MaxConcRows
    /\ procs' = [procs EXCEPT ![p] = StartOf(data)]
    /\ base' = IF AllIdle THEN Current ELSE base
    /\ resp' = NoResponse
    /\ UNCHANGED <<backend, bronze, silver, gold, lock, allOk, reset, call>>

\* request p takes its next step, and answers when that was its last
ProcStep(p) ==
    /\ CanStep(p, Current, procs[p])
    /\ LET r == Step(backend, p, Current, procs[p])
           done == r.l.pc = "done"
       IN  /\ SetStore(r.s)
           /\ procs' = [procs EXCEPT ![p] = r.l]
           /\ resp' = IF done THEN Response("post_sales", r.l.status, <<>>, {}, FALSE)
                      ELSE NoResponse
           /\ allOk' = (allOk /\ (done => r.l.status = 200))
           /\ reset' = (reset /\ ~(done /\ r.l.status = 200))
    /\ UNCHANGED <<backend, base, call>>

\* the answered requests leave
Retire ==
    /\ \A p \in Procs : procs[p].pc \in {"idle", "done"}
    /\ ~AllIdle
    /\ procs' = [p \in Procs |-> Idle]
    /\ resp' = NoResponse
    /\ UNCHANGED <<backend, bronze, silver, gold, lock, allOk, reset, base, call>>

InitDatabaseQuiet == AllIdle /\ InitDatabase

NextConc ==
    \/ \E p \in Procs, data \in ConcDatas : Receive(p, data)
    \/ \E p \in Procs : ProcStep(p)
    \/ Retire
    \/ InitDatabaseQuiet
    \/ \E ro \in BOOLEAN : GetMonthlySales(ro)

SpecConc == Init /\ [][NextConc]_vars

\* C9: when the requests of an overlap have all been answered, bronze and
\* silver are what running them one after the other, in one of the two
\* orders, leaves.
C9_Serialized ==
    (\A p \in Procs : procs[p].pc = "done") =>
        \E p, q \in Procs :
            /\ p # q
            /\ LET s1 == post_sales(backend, base, procs[p].data).s
                   s2 == post_sales(backend, s1, procs[q].data).s
               IN  bronze = s2.bronze /\ silver = s2.silver

\* C10: a monthly read taken while one post_sales request is in progress
\* returns the gold rows of before that request or those it leaves.
C10_AtomicGold ==
    \A p \in Procs :
        (/\ resp.op = "get_monthly_sales"
         /\ procs[p].pc \notin {"idle", "done"}
         /\ \A q \in Procs \ {p} : procs[q].pc = "idle") =>
            [status |-> resp.status, rows |-> resp.monthly] \in
                {get_monthly_sales(backend, base, resp.remove_outliers),
                 get_monthly_sales(backend, post_sales(backend, base, procs[p].data).s,
                                   resp.remove_outliers)}

(***************************************************************************)
(* The functions and handlers called once each, from a new store (SpecFn): *)
(* Init draws the call, an action applies it, and the reads follow.        *)
(***************************************************************************)
\* the result of a call: the value returned, or the exception raised
Returned(v) == [raised |-> FALSE, value |-> v]
Raised == [raised |-> TRUE, value |-> <<>>]

\* the names standardize_vegetable_name is called with: the keys and the
\* values of translations, and names with capitals or spaces around them
Names ==
    TranslationKeys \cup {Translations(k) : k \in TranslationKeys}
    \cup {" Tomate ", "Carrot", "TOMATO", "Pomme De Terre", "Kiwi", " kiwi ",
          "Brussels Sprout ", "kiwi"}

\* the quantities of the frames compute_monthly_sales is called with
FrameSales == {0, 100, 150}

\* silver frames of one row, for every week of the model's years and two
\* weeks strptime rejects, and frames of two rows of neighbouring weeks
WeekFrames ==
    {<<Row(yw, Str("tomato"), Num(k))>> :
        yw \in DOMAIN WeekTable \cup {202054, 202060}, k \in FrameSales}
    \cup {<<Row(202000 + w, Str("tomato"), Num(100)), Row(202000 + w + 1, Str(v), Num(150))>> :
            w \in {1, 4, 52}, v \in {"tomato", "carrot"}}

\* the key of month i, counted from January 2020
MonthNo(i) == (2020 + (i - 1) \div 12) * 100 + ((i - 1) % 12) + 1

\* the most months a vegetable has aggregates for
MaxGroup == 28

\* the aggregates of one vegetable over n months: a in each, a + d in the first
Group(veg, n, a, d) ==
    {[year_month |-> MonthNo(i), vegetable |-> veg,
      sales7 |-> IF i = 1 THEN a + d ELSE a] : i \in 1..n}

\* the most months of a group whose sales take every combination of values
MaxSmallGroup == 4

\* the sales (in sevenths of a kilo) of those groups
SmallSales == {0, 7, 700}

\* every group of 2..MaxSmallGroup months of one vegetable with sales in SmallSales
SmallGroups ==
    UNION {{{[year_month |-> MonthNo(i), vegetable |-> "tomato", sales7 |-> f[i]] : i \in 1..n} :
                f \in [1..n -> SmallSales]} : n \in 2..MaxSmallGroup}

\* the monthly frames tag_outliers is called with: a tomato group alone,
\* or next to a carrot group
MonthlyFrames ==
    {Group("tomato", n, a, d) \cup other :
        n \in {1, 2, 3, MaxGroup - 2, MaxGroup - 1, MaxGroup},
        a \in {7, 700}, d \in {0, 7, 140},
        other \in {{}, Group("carrot", 1, 7, 0), Group("carrot", MaxGroup - 1, 7, 140)}}
    \cup {{[year_month |-> 202001, vegetable |-> "tomato", sales7 |-> 10],
           [year_month |-> 202002, vegetable |-> "tomato", sales7 |-> 15],
           [year_month |-> 202003, vegetable |-> "tomato", sales7 |-> 100]}}
    \cup SmallGroups

\* the first week of the year that lies inside month i
WeekInside(i) ==
    CHOOSE w \in 1..MaxWeekW :
        /\ DOMAIN WeekTable[(MonthNo(i) \div 100) * 100 + w] = {MonthNo(i)}
        /\ \A v \in 1..(w - 1) :
            DOMAIN WeekTable[(MonthNo(i) \div 100) * 100 + v] # {MonthNo(i)}

\* a batch with one record per month over n months: 1 kilo in each but the
\* first, which has 1 + d
History(veg, n, d) ==
    List([i \in 1..n |->
            Obj(DateLabel(MonthNo(i) \div 100, WeekInside(i)), Str(veg),
                Num(IF i = 1 THEN 1 + d ELSE 1))])

\* the batches post_sales is called with: one record under each name, one
\* record under labels with weeks of two and three digits, and histories
\* of one vegetable
CallDatas ==
    {List(<<Obj(DateLabel(2020, 1), Str(n), Num(100))>>) : n \in Names}
    \cup {List(<<Obj(DateLabel(y, w), Str("tomato"), Num(100))>>) :
            y \in {2020, 2021}, w \in {0, 1, 23, 53, 60, 123}}
    \cup {History(veg, n, d) :
            veg \in {"tomate", "carrot"}, n \in {MaxGroup - 2, MaxGroup - 1, MaxGroup},
            d \in {0, 1}}

Calls ==
    {Call("standardize_vegetable_name", n, <<>>, FALSE) : n \in Names}
    \cup {Call("compute_monthly_sales", df, <<>>, FALSE) : df \in WeekFrames}
    \cup {Call("tag_outliers", m, <<>>, FALSE) : m \in MonthlyFrames}
    \cup {Call("post_sales", data, <<>>, FALSE) : data \in CallDatas}

InitFn ==
    /\ backend \in Backends
    /\ bronze = NewStore(backend).bronze
    /\ silver = NewStore(backend).silver
    /\ gold = NewStore(backend).gold
    /\ lock = 0
    /\ procs = [p \in Procs |-> Idle]
    /\ resp = NoResponse
    /\ allOk = TRUE
    /\ reset = FALSE
    /\ base = NewStore(backend)
    /\ call \in Calls

\* the call is answered; no table is touched
Answer(out) == call' = [call EXCEPT !.out = out, !.done = TRUE]

CallStandardize ==
    /\ call.fn = "standardize_vegetable_name" /\ ~call.done
    /\ Answer(Returned(standardize_vegetable_name(call.arg)))
    /\ UNCHANGED <<backend, bronze, silver, gold, lock, procs, resp, allOk, reset, base>>

CallComputeMonthlySales ==
    /\ call.fn = "compute_monthly_sales" /\ ~call.done
    /\ Answer(IF ComputeRaises(call.arg) THEN Raised
              ELSE Returned(compute_monthly_sales(call.arg)))
    /\ UNCHANGED <<backend, bronze, silver, gold, lock, procs, resp, allOk, reset, base>>

CallTagOutliers ==
    /\ call.fn = "tag_outliers" /\ ~call.done
    /\ Answer(Returned(tag_outliers(call.arg)))
    /\ UNCHANGED <<backend, bronze, silver, gold, lock, procs, resp, allOk, reset, base>>

CallPostSales ==
    /\ call.fn = "post_sales" /\ ~call.done
    /\ LET r == post_sales(backend, Current, call.arg)
       IN  /\ SetStore(r.s)
           /\ Answer(Returned(r.l.status))
           /\ resp' = Response("post_sales", r.l.status, <<>>, {}, FALSE)
           /\ allOk' = (allOk /\ r.l.status = 200)
    /\ UNCHANGED <<backend, procs, reset, base>>

NextFn ==
    \/ CallStandardize
    \/ CallComputeMonthlySales
    \/ CallTagOutliers
    \/ CallPostSales
    \/ GetRawSales
    \/ \E ro \in BOOLEAN : GetMonthlySales(ro)

SpecFn == InitFn /\ [][NextFn]_vars

(***************************************************************************)
(* Properties of the functions called on their own (SpecFn).               *)
(***************************************************************************)
\* the call of fn has returned
Finished(fn) == call.fn = fn /\ call.done /\ ~call.out.raised

RECURSIVE SumRows(_, _)
\* the sum of sales over the rows of a frame, from row i on
SumRows(df, i) == IF i > Len(df) THEN 0 ELSE df[i].sales.n + SumRows(df, i + 1)

\* the Monday of the row's week
WeekStart(r) == StartJulian(r.year_week \div 100, r.year_week % 100)

\* the number of the week's 7 days that lie in month m
DaysIn(r, m) ==
    Cardinality({i \in 0..6 : MonthKey(r.year_week \div 100, WeekStart(r) + i) = m})

\* the first and the last day of the row's week lie in the same month
WeekInOneMonth(r) ==
    MonthKey(r.year_week \div 100, WeekStart(r)) = MonthKey(r.year_week \div 100, WeekStart(r) + 6)

\* C11: compute_monthly_sales conserves the quantity: the monthly sales it
\* returns sum to the sales of the frame's rows; for a frame of one row it
\* returns one aggregate sales*d/7 for each month holding d > 0 days of the
\* week, exactly one (the whole sales) when the week lies in one month and
\* exactly two when it crosses a month boundary.
C11_AllocationConservation ==
    Finished("compute_monthly_sales") =>
        LET df == call.arg
            out == call.out.value
        IN  /\ SumSales(out) = 7 * SumRows(df, 1)
            /\ Len(df) = 1 =>
                /\ Cardinality(out) = IF WeekInOneMonth(df[1]) THEN 1 ELSE 2
                /\ \A g \in out :
                    /\ g.vegetable = df[1].vegetable.s
                    /\ DaysIn(df[1], g.year_month) > 0
                    /\ g.sales7 = df[1].sales.n * DaysIn(df[1], g.year_month)
                /\ WeekInOneMonth(df[1]) =>
                    \A g \in out : g.sales7 = 7 * df[1].sales.n

\* compute_monthly_sales has split the sales of a week that crosses a month
\* boundary in two parts, both smaller than the sales
C11_Witness ==
    /\ Finished("compute_monthly_sales")
    /\ Len(call.arg) = 1 /\ ~WeekInOneMonth(call.arg[1])
    /\ Cardinality(call.out.value) = 2
    /\ \A g \in call.out.value : 0 < g.sales7 /\ g.sales7 < 7 * call.arg[1].sales.n

RECURSIVE SumSqTo(_, _)
\* the sum over the group of (sales - x)^2
SumSqTo(group, x) ==
    IF group = {} THEN 0
    ELSE LET g == CHOOSE h \in group : TRUE
         IN  (g.sales7 - x) * (g.sales7 - x) + SumSqTo(group \ {g}, x)

RECURSIVE SumPairs(_, _)
\* the sum of (sales - sales')^2 over the ordered pairs of rest x group;
\* over a whole group of n this is 2 * n * (n - 1) * variance
SumPairs(rest, group) ==
    IF rest = {} THEN 0
    ELSE LET g == CHOOSE h \in rest : TRUE
         IN  SumSqTo(group, g.sales7) + SumPairs(rest \ {g}, group)

\* a monthly aggregate without its flag
Untagged(g) == [year_month |-> g.year_month, vegetable |-> g.vegetable, sales7 |-> g.sales7]

\* C12: tag_outliers keeps the aggregates and flags one exactly when its
\* vegetable's group has at least 2 aggregates that are not all equal and
\* its sales exceeds the group's mean + 5 * sample standard deviation
\* (squared and cleared of fractions: with n the size, S the sum and P the
\* sum of squared differences over ordered pairs, 2*(n*x - S)^2*(n - 1) >
\* 25*n*P); the flags of a vegetable are those its group gets on its own.
C12_OutlierRule ==
    Finished("tag_outliers") =>
        /\ {Untagged(g) : g \in call.out.value} = call.arg
        /\ Cardinality(call.out.value) = Cardinality(call.arg)
        /\ \A g \in call.out.value :
            LET group == {h \in call.arg : h.vegetable = g.vegetable}
                n == Cardinality(group)
                S == SumSales(group)
                P == SumPairs(group, group)
            IN  /\ g.is_outlier <=>
                    /\ n >= 2
                    /\ P > 0
                    /\ n * g.sales7 > S
                    /\ 2 * (n * g.sales7 - S) * (n * g.sales7 - S) * (n - 1) > 25 * n * P
                /\ (n = 1 \/ P = 0) => ~g.is_outlier
                /\ g \in tag_outliers(group)

\* tag_outliers has flagged an aggregate of one vegetable and left every
\* aggregate of another vegetable, whose sales are not all equal, unflagged
C12_Witness ==
    /\ Finished("tag_outliers")
    /\ \E g, h \in call.out.value :
        /\ g.is_outlier
        /\ h.vegetable # g.vegetable
        /\ \A k \in call.out.value : k.vegetable = h.vegetable => ~k.is_outlier
        /\ \E k \in call.out.value : k.vegetable = h.vegetable /\ k.sales7 # h.sales7

\* a name the normalizer returns as it is
FixedPoint(name) == standardize_vegetable_name(name) = name

\* C13: standardize_vegetable_name returns for every string, and what it
\* returns it returns unchanged when called again; no value of translations
\* is one of its keys; every name in silver and gold is a fixed point.
C13_NormalizeIdempotent ==
    /\ (call.fn = "standardize_vegetable_name" /\ call.done) =>
            ~call.out.raised /\ FixedPoint(call.out.value)
    /\ \A k \in TranslationKeys : Translations(k) \notin TranslationKeys
    /\ \A i \in 1..Len(silver.rows) : FixedPoint(silver.rows[i].vegetable.s)
    /\ \A g \in gold.rows : FixedPoint(g.vegetable)

\* a synonym written with capitals or spaces has been normalized: the
\* result is neither the name nor its lowered form, and is a fixed point
C13_Witness ==
    /\ Finished("standardize_vegetable_name")
    /\ call.out.value \notin {call.arg, LowerStrip(call.arg)}
    /\ FixedPoint(call.out.value)

\* C14 as stated: a name whose lowered, stripped form is not a key of
\* translations is returned unchanged, character for character.
C14_UnknownVerbatim ==
    (Finished("standardize_vegetable_name") /\ LowerStrip(call.arg) \notin TranslationKeys) =>
        call.out.value = call.arg

\* C14 (amended): a name whose lowered, stripped form is not a key of
\* translations is returned lowered and stripped, whatever else the table
\* holds; it is returned unchanged exactly when it is already so.
C14_UnknownLowered ==
    (Finished("standardize_vegetable_name") /\ LowerStrip(call.arg) \notin TranslationKeys) =>
        /\ call.out.value = LowerStrip(call.arg)
        /\ call.out.value \notin TranslationKeys
        /\ (call.out.value = call.arg) <=> (LowerStrip(call.arg) = call.arg)

\* a name unknown to the table and written with a capital or with spaces
\* around it has been returned in lower case, without the spaces
C14_Witness ==
    /\ Finished("standardize_vegetable_name")
    /\ LowerStrip(call.arg) \notin TranslationKeys
    /\ call.out.value # call.arg
    /\ call.out.value = LowerStrip(call.arg)

\* the post_sales call has been answered 200
Ingested == call.fn = "post_sales" /\ call.done /\ call.out.value = 200

\* C15: after a successful post_sales, get_raw_sales returns for every
\* record of the batch a row with the vegetable exactly as posted, and
\* every row get_monthly_sales returns, as every gold row, carries a name
\* that is normalized and is no synonym of the table.
C15_RawOriginalMonthlyCanonical ==
    Ingested =>
        /\ \A i \in 1..Len(call.arg.recs) :
            \E j \in 1..Len(get_raw_sales(Current)) :
                get_raw_sales(Current)[j].vegetable = call.arg.recs[i].vegetable
        /\ resp.op = "get_raw_sales" =>
            \A i \in 1..Len(call.arg.recs) :
                \E j \in 1..Len(resp.raw) : resp.raw[j].vegetable = call.arg.recs[i].vegetable
        /\ resp.op = "get_monthly_sales" =>
            \A row \in resp.monthly :
                FixedPoint(row.vegetable) /\ row.vegetable \notin TranslationKeys
        /\ \A g \in gold.rows : FixedPoint(g.vegetable) /\ g.vegetable \notin TranslationKeys

\* a synonym was posted: the monthly read returns a row under the canonical
\* name, which is not the posted one, and the raw read returns the posted one
C15_Witness ==
    /\ Ingested
    /\ resp.op = "get_monthly_sales" /\ resp.status = 200
    /\ \E row \in resp.monthly :
        /\ row.vegetable = standardize_vegetable_name(call.arg.recs[1].vegetable.s)
        /\ row.vegetable # call.arg.recs[1].vegetable.s
    /\ get_raw_sales(Current)[1].vegetable = call.arg.recs[1].vegetable

\* the gold rows behind the rows of a monthly response
RowsOf(monthly) ==
    {[year_month |-> row.year * 100 + row.month, vegetable |-> row.vegetable,
      sales7 |-> row.kilo_sold7, is_outlier |-> row.is_outlier] : row \in monthly}

\* C16: a get_monthly_sales call is answered 200 with exactly the gold rows
\* that are not flagged when remove_outliers is set and with every gold
\* row when it is not, and leaves the gold table as it was.
C16_OutlierFilter ==
    [][resp'.op = "get_monthly_sales" =>
        /\ gold' = gold
        /\ resp'.status = 200
        /\ RowsOf(resp'.monthly) =
            {g \in gold.rows : ~(resp'.remove_outliers /\ g.is_outlier)}]_vars

\* the first Monday of year y, as a day of the year
FirstMonday(y) == CHOOSE j \in 1..7 : (Jan1Weekday(y) + j - 1) % 7 = 0

\* C17: for a week N >= 1 of year Y, compute_monthly_sales attributes the
\* sales to the months of the 7 days that start 7 * (N - 1) days after the
\* first Monday of Y, which is never the day 7 * N days after 1 January;
\* week 1 of 2020 starts on 6 January and goes to month 202001 whole.
C17_WeekAnchoring ==
    (Finished("compute_monthly_sales") /\ Len(call.arg) = 1 /\ call.arg[1].year_week % 100 >= 1) =>
        LET r == call.arg[1]
            y == r.year_week \div 100
            anchor == FirstMonday(y) + 7 * ((r.year_week % 100) - 1)
            months == {MonthKey(y, anchor + i) : i \in 0..6}
        IN  /\ call.out.value =
                {[year_month |-> m, vegetable |-> r.vegetable.s,
                  sales7 |-> r.sales.n *
                        Cardinality({i \in 0..6 : MonthKey(y, anchor + i) = m})] :
                    m \in months}
            /\ (Jan1Weekday(y) + anchor - 1) % 7 = 0
            /\ anchor # 1 + 7 * (r.year_week % 100)
            /\ r.year_week = 202001 =>
                /\ anchor = 6
                /\ call.out.value =
                    {[year_month |-> 202001, vegetable |-> r.vegetable.s,
                      sales7 |-> 7 * r.sales.n]}

\* week 1 of 2020 has been allocated: one aggregate, in January 2020
C17_Witness ==
    /\ Finished("compute_monthly_sales")
    /\ Len(call.arg) = 1 /\ call.arg[1].year_week = 202001 /\ call.arg[1].sales.n > 0
    /\ \A g \in call.out.value : g.year_month = 202001 /\ g.sales7 = 7 * call.arg[1].sales.n
    /\ call.out.value # {}

(***************************************************************************)
(* Requests that are interrupted or fail.                                  *)
(***************************************************************************)
RECURSIVE RunUntil(_, _, _, _)
\* a request run until it is about to take the step `stop`, or to its response
RunUntil(be, s, l, stop) ==
    IF l.pc \in {"done", stop} THEN [s |-> s, l |-> l]
    ELSE LET r == Step(be, 1, s, l) IN RunUntil(be, r.s, r.l, stop)

\* the store a request leaves when its process ends there: the files as
\* written so far; sqlite rolls the open transaction back
Abandon(s) == [s EXCEPT !.lock = 0]

\* the steps before which a prefix of the table writes is done: bronze
\* written, bronze and silver written; on sqlite the writes not committed
WritePrefixes == {"silver_read", "gold_open", "sql_commit"}

\* C18: from every reachable store and for every batch, when post_sales is
\* interrupted after a prefix of its table writes, running the same batch
\* again to its response leaves the bronze, silver and gold that one
\* uninterrupted run leaves.
C18_RetryConverges ==
    \A data \in Datas, stop \in WritePrefixes :
        LET part == RunUntil(backend, Current, StartOf(data), stop)
        IN  part.l.pc = stop =>
                post_sales(backend, Abandon(part.s), data).s = post_sales(backend, Current, data).s

\* the call passes the checks, the transformation and the normalization, and
\* answers 500: compute_monthly_sales raised
FailsInGold(be, s, data) ==
    /\ Validates(data)
    /\ ~TransformRaises(data)
    /\ ~SilverRaises(Transform(data))
    /\ post_sales(be, s, data).l.status = 500

\* a batch of records that are all valid
ValidData(data) ==
    /\ data.isList
    /\ data.recs # <<>>
    /\ \A i \in 1..Len(data.recs) : ValidRecord(data.recs[i])

\* C19: from every reachable store, a post_sales call that fails while gold
\* is recomputed leaves bronze, silver and gold as they were, and every
\* valid batch posted after it is answered 200 and has its months in gold.
C19_FailureIsolation ==
    \A data \in Datas :
        FailsInGold(backend, Current, data) =>
            LET r == post_sales(backend, Current, data)
            IN  /\ r.s = Current
                /\ \A ok \in Datas :
                    ValidData(ok) =>
                        LET n == post_sales(backend, r.s, ok)
                        IN  /\ n.l.status = 200
                            /\ GoldOf(n.s.silver.rows) \subseteq n.s.gold.rows

\* post_sales answers 200 to the batch on a new store
Accepted(be, data) == post_sales(be, NewStore(be), data).l.status = 200

\* the (year, week) pairs a batch is posted with
PairsOf(data) ==
    {<<data.recs[i].date.year, data.recs[i].date.week>> : i \in 1..Len(data.recs)}

\* the key post_sales stores a (year, week) pair under
KeyOf(pair) == Transform(List(<<Obj(DateLabel(pair[1], pair[2]), Str("tomato"), Num(100))>>))[1].year_week

\* C20: after post_sales has accepted a batch, get_raw_sales returns for
\* every record of it a row with the year and the week that were posted,
\* and no other (year, week) pair of an accepted batch has the key of one
\* of its pairs.
C20_LabelEncoding ==
    Ingested =>
        /\ \A i \in 1..Len(call.arg.recs) :
            \E j \in 1..Len(get_raw_sales(Current)) :
                /\ get_raw_sales(Current)[j].year = call.arg.recs[i].date.year
                /\ get_raw_sales(Current)[j].week = call.arg.recs[i].date.week
                /\ get_raw_sales(Current)[j].vegetable = call.arg.recs[i].vegetable
        /\ \A other \in CallDatas :
            Accepted(backend, other) =>
                \A a \in PairsOf(call.arg), b \in PairsOf(other) :
                    a # b => KeyOf(a) # KeyOf(b)

\* the aggregates of the vegetable of g in a monthly frame
GroupOf(g, monthly) == {h \in monthly : h.vegetable = g.vegetable}

\* C21: an aggregate that tag_outliers flags is one of at least 27
\* aggregates of its vegetable, in the frame tag_outliers is called with and
\* in the gold table post_sales leaves: no aggregate of a group of 2 to 26
\* is flagged, whatever its sales are.
C21_SmallGroupsUnflagged ==
    /\ Finished("tag_outliers") =>
        \A g \in call.out.value :
            g.is_outlier => Cardinality(GroupOf(Untagged(g), call.arg)) >= 27
    /\ Ingested =>
        \A g \in gold.rows :
            g.is_outlier => Cardinality(GroupOf(g, gold.rows)) >= 27

\* tag_outliers has left a group of 26 aggregates, one of them far above
\* the 25 others, without a flag, next to a group of 27 of that shape in
\* which it has flagged one
C21_Witness ==
    /\ Finished("tag_outliers")
    /\ \E g, h \in call.out.value :
        /\ Cardinality(GroupOf(g, call.out.value)) \in 2..26
        /\ \E k \in GroupOf(g, call.out.value) : k.sales7 > 20 * g.sales7
        /\ \A k \in GroupOf(g, call.out.value) : ~k.is_outlier
        /\ h.is_outlier
        /\ Cardinality(GroupOf(h, call.out.value)) >= 27

====
